---------------------------- MODULE Spec2Model ----------------------------
(***************************************************************************)
(* A model of forensics.py: the screenshot classifier, the forgery         *)
(* heuristic scorer, the two pixel transforms and analyze_image.           *)
(*                                                                         *)
(* Python values are tagged records: a str is [type |-> "str", s |-> ..],  *)
(* a dict is [type |-> "dict", items |-> <mapping>], a tuple carries its   *)
(* items as a sequence, a PIL image and a numpy array carry what the code  *)
(* reads of them.  A call evaluates to a value or to an exception marker   *)
(* that the caller propagates.  What the libraries read from storage       *)
(* (decode, EXIF, exiftool, cv2) is drawn at the call that reads it.       *)
(***************************************************************************)
EXTENDS Integers, Sequences, FiniteSets, TLC

\* Number of concurrent invocations of perform_ela_analysis in ElaSpec.
NumProcs == 2

Procs == 1..NumProcs

\* The invocation that analyze_image itself makes (Spec).
Main == 1

VARIABLES
    file,               \* file[p]: the image at invocation p's image_path
    pc,                 \* analyze_image: the statement about to run
    exception,          \* analyze_image: the exception that ended it, or "none"
    locals,             \* analyze_image: its bound local variables
    img,                \* what open_image returned to check_image_for_screenshot
    exif_metadata,      \* what extract_exif_metadata returned to it
    basic_metadata,     \* what extract_basic_metadata returned to check_image_for_forgery
    exiftool_metadata,  \* what extract_exiftool_metadata returned to it
    storage,            \* storage[path]: the file at path in the working directory
    elaPc,              \* elaPc[p]: perform_ela_analysis, the statement about to run
    elaImg,             \* elaImg[p]: its local ela_image (what Image.open(ela_path) saw)
    elaRet              \* elaRet[p]: its return value

vars == <<file, pc, exception, locals, img, exif_metadata, basic_metadata,
          exiftool_metadata, storage, elaPc, elaImg, elaRet>>

-----------------------------------------------------------------------------
(* Python values *)

EmptyMap == [k \in {} |-> ""]

NoneVal == [type |-> "NoneType"]

PyStr(s) == [type |-> "str", s |-> s]

PyDict(m) == [type |-> "dict", items |-> m]

PyTuple(t) == [type |-> "tuple", items |-> t]

Exc(name) == [type |-> "exception", name |-> name]

\* {"error": msg}
ErrorDict(msg) == PyDict([error |-> msg])

\* isinstance(v, dict) and 'error' in v
IsErrorDict(v) == v.type = "dict" /\ "error" \in DOMAIN v.items

\* str.__contains__: literal, case-sensitive substring search
Contains(sub, str) ==
    \E i \in 1..(Len(str) - Len(sub) + 1) : SubSeq(str, i, i + Len(sub) - 1) = sub

\* x in v: substring of a str, key of a dict
In(x, v) ==
    IF v.type = "str" THEN Contains(x, v.s)
    ELSE IF v.type = "dict" THEN x \in DOMAIN v.items
    ELSE FALSE

\* bool(v): a dict is true when it has an entry
Truthy(v) == IF v.type = "dict" THEN DOMAIN v.items # {} ELSE TRUE

\* l with name bound to val
Bind(l, name, val) ==
    [k \in DOMAIN l \cup {name} |-> IF k = name THEN val ELSE l[k]]

-----------------------------------------------------------------------------
(* The Metadata Gateway: open_image and the three extractions *)

\* open_image: the decoded image, or the error dict of a failed Image.open
open_image(f, decodes) ==
    IF decodes
    THEN [type |-> "Image", size |-> f.size, id |-> f.id]
    ELSE ErrorDict("Failed to open image: cannot identify image file")

\* extract_basic_metadata: img.info, or open_image's error dict
extract_basic_metadata(f, decodes, info) ==
    LET i == open_image(f, decodes)
    IN  IF IsErrorDict(i) THEN i ELSE PyDict(info)

\* extract_exif_metadata: exifread's tags, or an error dict when reading raises
extract_exif_metadata(read) ==
    IF read.raises
    THEN ErrorDict("Failed to read EXIF metadata: No such file or directory")
    ELSE PyDict(read.tags)

\* extract_exiftool_metadata: stdout, or an error dict on a non-zero exit code
\* or when subprocess.run raises
extract_exiftool_metadata(run) ==
    IF run.raises
    THEN ErrorDict("Failed to run ExifTool: No such file or directory: exiftool")
    ELSE IF run.returncode # 0 THEN ErrorDict(run.stderr)
    ELSE PyStr(run.stdout)

-----------------------------------------------------------------------------
(* check_image_for_screenshot *)

common_resolutions ==
    << <<1920, 1080>>, <<1366, 768>>, <<1280, 720>>, <<1440, 900>>,
       <<1680, 1050>>, <<1280, 800>>, <<2560, 1440>>, <<3840, 2160>> >>

\* d >= r * 0.9 and d <= r * 1.1, d and r integers, the products doubles.
\* For each of the reference values the double r * 0.9 is the exact integer
\* 9r/10 when that is one, and r * 1.1 is 11r/10 or the next double above
\* it; otherwise the product lies strictly between two integers, on the
\* side of the exact quotient.  So comparing an integer with the double
\* product is comparing it with the exact quotient.
WithinToleranceStrict(d, r) == 10 * d > 9 * r /\ 10 * d < 11 * r

WithinTolerance(d, r) == 10 * d >= 9 * r /\ 10 * d <= 11 * r

\* the for loop: some reference pair matches width and height
MatchesCommonResolution(width, height) ==
    \E k \in 1..Len(common_resolutions) :
        /\ WithinTolerance(width, common_resolutions[k][1])
        /\ WithinTolerance(height, common_resolutions[k][2])

check_image_for_screenshot_AndSlip(i, exif) ==
    IF IsErrorDict(i) THEN i
    ELSE IF MatchesCommonResolution(i.size[1], i.size[2])
    THEN PyTuple(<<"Possible Screenshot (Common Screen Resolution)", 35>>)
    ELSE IF Truthy(exif) /\ ~In("Image", exif)
    THEN PyTuple(<<"Possible Screenshot (Missing or Minimal EXIF Data)", 50>>)
    ELSE PyTuple(<<"Original Image (Not a Screenshot)", 0>>)

\* i is open_image(image_path); exif is extract_exif_metadata(image_path),
\* which the code reads only when no reference pair matches
check_image_for_screenshot(i, exif) ==
    IF IsErrorDict(i) THEN i
    ELSE IF MatchesCommonResolution(i.size[1], i.size[2])
    THEN PyTuple(<<"Possible Screenshot (Common Screen Resolution)", 35>>)
    ELSE IF ~Truthy(exif) \/ ~In("Image", exif)
    THEN PyTuple(<<"Possible Screenshot (Missing or Minimal EXIF Data)", 50>>)
    ELSE PyTuple(<<"Original Image (Not a Screenshot)", 0>>)

-----------------------------------------------------------------------------
(* check_image_for_forgery *)

check_image_for_forgery_KeyOnly(basic, exif, tool) ==
    (IF In("Software", basic) THEN 40 ELSE 0)
    + (IF In("Inkscape", tool) \/ In("Photoshop", tool) THEN 40 ELSE 0)

\* basic, exif and tool are the results of the three extractions; exif is
\* extracted and not used
check_image_for_forgery(basic, exif, tool) ==
    (IF In("Software", basic) /\ basic.items["Software"] # "" THEN 40 ELSE 0)
    + (IF In("Inkscape", tool) \/ In("Photoshop", tool) THEN 40 ELSE 0)

-----------------------------------------------------------------------------
(* The pixel transforms *)

detect_clone_patterns_NoCheck(f, readable) ==
    IF ~readable
    THEN Exc("cv2.error")
    ELSE [type |-> "ndarray", shape |-> <<f.size[2], f.size[1]>>]

\* cv2.imread gives None for a file it cannot read; Canny's edge map has the
\* image's rows and columns
detect_clone_patterns(f, readable) ==
    IF ~readable
    THEN ErrorDict("Failed to read the image for clone detection.")
    ELSE [type |-> "ndarray", shape |-> <<f.size[2], f.size[1]>>]

\* A file of the working directory: whether it exists, whose image was last
\* saved to it, and whether that save ran to its end.
Absent == [exists |-> FALSE, of |-> 0, complete |-> FALSE]

Written(p, complete) == [exists |-> TRUE, of |-> p, complete |-> complete]

\* ela_path = "ela_image.jpg": the same path whatever the invocation
ela_path(p) == "ela_image.jpg"

Paths == {ela_path(p) : p \in Procs}

\* ImageChops.difference(original, ela_image)
Difference(p, q) ==
    [type |-> "Image", mode |-> "difference", original |-> p, reencoded |-> q]

\* the except clause of perform_ela_analysis
ElaFailure(msg) == ErrorDict(msg)

\* original = open_image(image_path), and the early return
ElaOpen(p) ==
    /\ elaPc[p] = "open"
    /\ \E decodes \in BOOLEAN :
        LET original == open_image(file[p], decodes)
        IN  IF IsErrorDict(original)
            THEN /\ elaRet' = [elaRet EXCEPT ![p] = original]
                 /\ elaPc' = [elaPc EXCEPT ![p] = "returned"]
            ELSE /\ elaPc' = [elaPc EXCEPT ![p] = "save"]
                 /\ UNCHANGED elaRet
    /\ UNCHANGED <<file, pc, exception, locals, img, exif_metadata,
                   basic_metadata, exiftool_metadata, storage, elaImg>>

\* original.save(ela_path, ...): the file is created or truncated
ElaSaveBegin(p) ==
    /\ elaPc[p] = "save"
    /\ \E writable \in BOOLEAN :
        IF writable
        THEN /\ storage' = [storage EXCEPT ![ela_path(p)] = Written(p, FALSE)]
             /\ elaPc' = [elaPc EXCEPT ![p] = "encode"]
             /\ UNCHANGED elaRet
        ELSE /\ elaRet' = [elaRet EXCEPT ![p] =
                              ElaFailure("Failed to perform ELA: Permission denied")]
             /\ elaPc' = [elaPc EXCEPT ![p] = "returned"]
             /\ UNCHANGED storage
    /\ UNCHANGED <<file, pc, exception, locals, img, exif_metadata,
                   basic_metadata, exiftool_metadata, elaImg>>

\* original.save(ela_path, ...): the encoder writes the file and closes it, or
\* raises (a mode JPEG cannot hold) and leaves the file cut short or, when the
\* library removes what it created, absent.  When another invocation has
\* truncated the file meanwhile, the bytes of the two are mixed.
ElaSaveEnd(p) ==
    /\ elaPc[p] = "encode"
    /\ \/ /\ \E whole \in (IF storage[ela_path(p)] = Written(p, FALSE)
                           THEN {TRUE} ELSE BOOLEAN) :
                storage' = [storage EXCEPT ![ela_path(p)] = Written(p, whole)]
          /\ elaPc' = [elaPc EXCEPT ![p] = "reopen"]
          /\ UNCHANGED elaRet
       \/ /\ \E left \in {Written(p, FALSE), Absent} :
                storage' = [storage EXCEPT ![ela_path(p)] = left]
          /\ elaRet' = [elaRet EXCEPT ![p] =
                           ElaFailure("Failed to perform ELA: cannot write mode RGBA as JPEG")]
          /\ elaPc' = [elaPc EXCEPT ![p] = "returned"]
    /\ UNCHANGED <<file, pc, exception, locals, img, exif_metadata,
                   basic_metadata, exiftool_metadata, elaImg>>

\* ela_image = Image.open(ela_path): lazy, it reads the header now
ElaReopen(p) ==
    /\ elaPc[p] = "reopen"
    /\ \E readable \in BOOLEAN :
        LET f == storage[ela_path(p)]
        IN  IF readable /\ f.exists /\ f.complete
            THEN /\ elaImg' = [elaImg EXCEPT ![p] = f]
                 /\ elaPc' = [elaPc EXCEPT ![p] = "diff"]
                 /\ UNCHANGED elaRet
            ELSE /\ elaRet' = [elaRet EXCEPT ![p] =
                                  ElaFailure("Failed to perform ELA: cannot identify image file")]
                 /\ elaPc' = [elaPc EXCEPT ![p] = "returned"]
                 /\ UNCHANGED elaImg
    /\ UNCHANGED <<file, pc, exception, locals, img, exif_metadata,
                   basic_metadata, exiftool_metadata, storage>>

\* diff = ImageChops.difference(original, ela_image): the pixels of ela_image
\* are read now, from what the file holds now (from what the header read saw
\* when the file has been removed).  Another image's pixels give a difference
\* or, when size or mode differ, raise.
ElaDiff(p) ==
    /\ elaPc[p] = "diff"
    /\ LET f == storage[ela_path(p)]
           data == IF f.exists THEN f ELSE elaImg[p]
       IN  \E same \in (IF data.of = p THEN {TRUE} ELSE BOOLEAN) :
            elaRet' = [elaRet EXCEPT ![p] =
                IF data.complete /\ same
                THEN Difference(file[p].id, data.of)
                ELSE ElaFailure("Failed to perform ELA: images do not match")]
    /\ elaPc' = [elaPc EXCEPT ![p] = "returned"]
    /\ UNCHANGED <<file, pc, exception, locals, img, exif_metadata,
                   basic_metadata, exiftool_metadata, storage, elaImg>>

perform_ela_analysis(p) ==
    \/ ElaOpen(p)
    \/ ElaSaveBegin(p)
    \/ ElaSaveEnd(p)
    \/ ElaReopen(p)
    \/ ElaDiff(p)

-----------------------------------------------------------------------------
(* What the runs are given: image sizes, and what the library calls yield *)

\* the least integer that is at least 90% of r, the greatest at most 110%
Lo(r) == (9 * r + 9) \div 10

Hi(r) == (11 * r) \div 10

Probes(r) == {Lo(r) - 1, Lo(r), r, Hi(r), Hi(r) + 1}

Refs == {common_resolutions[k] : k \in 1..Len(common_resolutions)}

\* Around every reference pair: each dimension at, on and just past its
\* bounds with the other at the reference, and the corners; every reference
\* pair swapped; every reference width with every reference height; and
\* sizes far from all of them.
Sizes ==
    UNION {   {<<w, r[2]>> : w \in Probes(r[1])}
         \cup {<<r[1], h>> : h \in Probes(r[2])}
         \cup {<<Lo(r[1]), Lo(r[2])>>, <<Hi(r[1]), Hi(r[2])>>,
               <<Lo(r[1]) - 1, Lo(r[2])>>, <<Hi(r[1]), Hi(r[2]) + 1>>}
         \cup {<<r[2], r[1]>>} : r \in Refs }
    \cup {<<a[1], b[2]>> : a \in Refs, b \in Refs}
    \cup {<<800, 600>>, <<640, 480>>, <<4000, 3000>>, <<1, 1>>}

\* img.info
Infos ==
    { EmptyMap,
      [DPI |-> "72"],
      [Software |-> "Adobe Photoshop 2023"],
      [Software |-> "", DPI |-> "72"],
      [Software |-> "GIMP 2.10", DPI |-> "300"] }

\* exifread.process_file: it raises, or gives its tags, keyed "<IFD> <tag>"
ExifReads ==
    { [raises |-> TRUE,  tags |-> EmptyMap],
      [raises |-> FALSE, tags |-> EmptyMap],
      [raises |-> FALSE, tags |-> ("Image Make" :> "Canon" @@ "EXIF DateTimeOriginal" :> "2023:01:01")],
      [raises |-> FALSE, tags |-> ("Image Software" :> "Adobe Photoshop")],
      [raises |-> FALSE, tags |-> ("EXIF ExposureTime" :> "1/60" @@ "Thumbnail Compression" :> "JPEG")],
      [raises |-> FALSE, tags |-> ("Image" :> "IFD0" @@ "EXIF ExposureTime" :> "1/60")] }

\* subprocess.run(['exiftool', image_path]): it raises, or exits with a code
ToolRuns ==
    { [raises |-> TRUE,  returncode |-> 0, stdout |-> "", stderr |-> ""],
      [raises |-> FALSE, returncode |-> 1, stdout |-> "", stderr |-> "Error: File format error"],
      [raises |-> FALSE, returncode |-> 1, stdout |-> "", stderr |-> "Error: Not a valid Photoshop file"],
      [raises |-> FALSE, returncode |-> 0, stdout |-> "", stderr |-> ""],
      [raises |-> FALSE, returncode |-> 0, stdout |-> "File Type : JPEG", stderr |-> ""],
      [raises |-> FALSE, returncode |-> 0, stdout |-> "Software : Adobe Photoshop CC", stderr |-> ""],
      [raises |-> FALSE, returncode |-> 0, stdout |-> "Creator Tool : Inkscape 1.2", stderr |-> ""],
      [raises |-> FALSE, returncode |-> 0, stdout |-> "Software : adobe photoshop", stderr |-> "Warning: Inkscape"] }

-----------------------------------------------------------------------------
(* analyze_image *)

UnpackPair_Lenient(v) ==
    IF v.type = "tuple"
    THEN [raises |-> FALSE, items |-> v.items]
    ELSE [raises |-> FALSE, items |-> <<"error", 0>>]

\* a, b = v: ValueError unless v yields two items.  The only dict unpacked
\* is an error dict, which yields its one key.
UnpackPair(v) ==
    IF v.type = "tuple" /\ Len(v.items) = 2
    THEN [raises |-> FALSE, items |-> v.items]
    ELSE [raises |-> TRUE, items |-> <<>>]

TotalForgeryScore_NoCap(forgery_score, screenshot_score) ==
    forgery_score + screenshot_score

\* total_forgery_score = min(forgery_score + screenshot_score, 100)
TotalForgeryScore(forgery_score, screenshot_score) ==
    LET total_forgery_score == forgery_score + screenshot_score
    IN  IF total_forgery_score < 100 THEN total_forgery_score ELSE 100

RecordEla_Penalise(l, r) ==
    IF IsErrorDict(r)
    THEN Bind(Bind(l, "ela_result", r), "total_forgery_score", 0)
    ELSE Bind(l, "ela_result", r)

\* ela_result = perform_ela_analysis(image_path), then shown or printed
RecordEla(l, r) == Bind(l, "ela_result", r)

\* screenshot_result, screenshot_score = check_image_for_screenshot(image_path).
\* exif_metadata records what the EXIF extraction yields for the file also
\* when the resolution rule returns before reading it.
AnalyzeScreenshot ==
    /\ pc = "screenshot"
    /\ \E decodes \in BOOLEAN, read \in ExifReads :
        LET i == open_image(file[Main], decodes)
            e == extract_exif_metadata(read)
            u == UnpackPair(check_image_for_screenshot(i, e))
        IN  /\ img' = i
            /\ exif_metadata' = IF IsErrorDict(i) THEN NoneVal ELSE e
            /\ IF u.raises
               THEN /\ pc' = "raised"
                    /\ exception' = "ValueError"
                    /\ UNCHANGED locals
               ELSE /\ pc' = "forgery"
                    /\ locals' = Bind(Bind(locals, "screenshot_result", u.items[1]),
                                      "screenshot_score", u.items[2])
                    /\ UNCHANGED exception
    /\ UNCHANGED <<file, basic_metadata, exiftool_metadata, storage, elaPc,
                   elaImg, elaRet>>

\* forgery_score = check_image_for_forgery(image_path)
AnalyzeForgery ==
    /\ pc = "forgery"
    /\ \E opened \in {<<FALSE, EmptyMap>>} \cup {<<TRUE, i>> : i \in Infos},
          read \in ExifReads, run \in ToolRuns :
        LET b == extract_basic_metadata(file[Main], opened[1], opened[2])
            e == extract_exif_metadata(read)
            t == extract_exiftool_metadata(run)
        IN  /\ basic_metadata' = b
            /\ exiftool_metadata' = t
            /\ locals' = Bind(locals, "forgery_score", check_image_for_forgery(b, e, t))
    /\ pc' = "total"
    /\ UNCHANGED <<file, exception, img, exif_metadata, storage, elaPc,
                   elaImg, elaRet>>

\* total_forgery_score, capped, and printed
AnalyzeTotal ==
    /\ pc = "total"
    /\ locals' = Bind(locals, "total_forgery_score",
                      TotalForgeryScore(locals.forgery_score, locals.screenshot_score))
    /\ pc' = "clone"
    /\ UNCHANGED <<file, exception, img, exif_metadata, basic_metadata,
                   exiftool_metadata, storage, elaPc, elaImg, elaRet>>

\* clone_edges = detect_clone_patterns(image_path), then shown or printed
AnalyzeClone ==
    /\ pc = "clone"
    /\ \E readable \in BOOLEAN :
        LET r == detect_clone_patterns(file[Main], readable)
        IN  IF r.type = "exception"
            THEN /\ pc' = "raised"
                 /\ exception' = r.name
                 /\ UNCHANGED locals
            ELSE /\ pc' = "ela"
                 /\ locals' = Bind(locals, "clone_edges", r)
                 /\ UNCHANGED exception
    /\ UNCHANGED <<file, img, exif_metadata, basic_metadata, exiftool_metadata,
                   storage, elaPc, elaImg, elaRet>>

\* the call perform_ela_analysis(image_path)
AnalyzeElaCall ==
    /\ pc = "ela"
    /\ pc' = "ela_running"
    /\ elaPc' = [elaPc EXCEPT ![Main] = "open"]
    /\ UNCHANGED <<file, exception, locals, img, exif_metadata, basic_metadata,
                   exiftool_metadata, storage, elaImg, elaRet>>

\* its return: ela_result is shown or printed, and analyze_image ends
AnalyzeElaReturn ==
    /\ pc = "ela_running"
    /\ elaPc[Main] = "returned"
    /\ locals' = RecordEla(locals, elaRet[Main])
    /\ pc' = "done"
    /\ UNCHANGED <<file, exception, img, exif_metadata, basic_metadata,
                   exiftool_metadata, storage, elaPc, elaImg, elaRet>>

analyze_image ==
    \/ AnalyzeScreenshot
    \/ AnalyzeForgery
    \/ AnalyzeTotal
    \/ AnalyzeClone
    \/ AnalyzeElaCall
    \/ AnalyzeElaReturn

-----------------------------------------------------------------------------
(* Spec: one run of analyze_image on any of the images *)

Start(sizes) ==
    /\ \E s \in sizes : file = [p \in Procs |-> [id |-> p, size |-> s]]
    /\ pc = "screenshot"
    /\ exception = "none"
    /\ locals = EmptyMap
    /\ img = NoneVal
    /\ exif_metadata = NoneVal
    /\ basic_metadata = NoneVal
    /\ exiftool_metadata = NoneVal
    /\ storage = [path \in Paths |-> Absent]
    /\ elaPc = [p \in Procs |-> "idle"]
    /\ elaImg = [p \in Procs |-> Absent]
    /\ elaRet = [p \in Procs |-> NoneVal]

Init == Start(Sizes)

Next == analyze_image \/ perform_ela_analysis(Main)

Spec == Init /\ [][Next]_vars

\* FairSpec: the same run, on a reference size, its bounds, its swap and a
\* size far from all.  analyze_image is sequential code: a statement that
\* can run does run.
FairSizes ==
    {<<1920, 1080>>, <<1728, 972>>, <<1727, 1080>>, <<1080, 1920>>, <<800, 600>>}

FairInit == Start(FairSizes)

FairSpec == FairInit /\ [][Next]_vars /\ WF_vars(Next)

-----------------------------------------------------------------------------
(* ElaSpec: perform_ela_analysis called concurrently, once per invocation, *)
(* each on its own image, in one working directory                        *)

ElaInit ==
    /\ file = [p \in Procs |-> [id |-> p, size |-> common_resolutions[p]]]
    /\ pc = "none"
    /\ exception = "none"
    /\ locals = EmptyMap
    /\ img = NoneVal
    /\ exif_metadata = NoneVal
    /\ basic_metadata = NoneVal
    /\ exiftool_metadata = NoneVal
    /\ storage = [path \in Paths |-> Absent]
    /\ elaPc = [p \in Procs |-> "open"]
    /\ elaImg = [p \in Procs |-> Absent]
    /\ elaRet = [p \in Procs |-> NoneVal]

ElaNext == \E p \in Procs : perform_ela_analysis(p)

ElaSpec == ElaInit /\ [][ElaNext]_vars

-----------------------------------------------------------------------------
(* Properties *)

Bound(name) == name \in DOMAIN locals

\* both dimensions within 10% (bounds included) of one reference pair
NearReference(size) ==
    \E r \in Refs :
        /\ 9 * r[1] <= 10 * size[1] /\ 10 * size[1] <= 11 * r[1]
        /\ 9 * r[2] <= 10 * size[2] /\ 10 * size[2] <= 11 * r[2]

StartsWith(prefix, str) ==
    Len(str) >= Len(prefix) /\ SubSeq(str, 1, Len(prefix)) = prefix

\* C1: once a run has produced its total, the total is
\* min(100, screenshot_score + forgery_score) of that run's sub-scores, an
\* integer in 0..100, and no larger than the total of any greater sub-score.
C1_TotalIsCappedSum ==
    Bound("total_forgery_score") =>
        LET s == locals.screenshot_score
            f == locals.forgery_score
            t == locals.total_forgery_score
        IN  /\ t = (IF s + f > 100 THEN 100 ELSE s + f)
            /\ t \in 0..100
            /\ \A d \in {0, 5, 35, 40, 50, 80} :
                /\ TotalForgeryScore(f, s + d) >= t
                /\ TotalForgeryScore(f + d, s) >= t
                /\ TotalForgeryScore(f, s + d) \in 0..100
                /\ TotalForgeryScore(f + d, s) \in 0..100

\* C1 witness: a run whose sub-scores sum to 130 and whose total is capped
C1_Witness ==
    /\ Bound("total_forgery_score")
    /\ locals.screenshot_score = 50
    /\ locals.forgery_score = 80
    /\ locals.total_forgery_score = 100

\* C2: a decoded image whose EXIF extraction succeeded with a tag whose name
\* starts with "Image", and whose size is near no reference pair, is classed
\* ("Original Image (Not a Screenshot)", 0).
C2_ImageGroupTagGivesOriginal ==
    ( /\ Bound("screenshot_score")
      /\ ~IsErrorDict(exif_metadata)
      /\ \E k \in DOMAIN exif_metadata.items : StartsWith("Image", k)
      /\ ~NearReference(img.size) )
    => /\ locals.screenshot_score = 0
       /\ locals.screenshot_result = "Original Image (Not a Screenshot)"

\* C3: a decoded image is classed
\* ("Possible Screenshot (Common Screen Resolution)", 35) exactly when its
\* width and height are within 10%, bounds included, of the width and height
\* of one reference pair, whatever the EXIF extraction yields; 1920 x 1080
\* always is.
C3_ResolutionRuleFirst ==
    Bound("screenshot_score") =>
        /\ NearReference(img.size) <=> locals.screenshot_score = 35
        /\ NearReference(img.size) <=>
               locals.screenshot_result = "Possible Screenshot (Common Screen Resolution)"
        /\ img.size = <<1920, 1080>> => locals.screenshot_score = 35

\* C3 witness: a width exactly 90% of 1920 with a height exactly 90% of
\* 1080, EXIF holding an "Image" key, classed 35
C3_Witness ==
    /\ Bound("screenshot_score")
    /\ img.size = <<1728, 972>>
    /\ In("Image", exif_metadata)
    /\ locals.screenshot_score = 35

\* C4: a decoded image near no reference pair whose EXIF extraction failed
\* or gave an empty mapping is classed
\* ("Possible Screenshot (Missing or Minimal EXIF Data)", 50); and every
\* classification is one of the three rules' results.
C4_ExifFailureGivesFifty ==
    Bound("screenshot_score") =>
        /\ ( /\ ~NearReference(img.size)
             /\ (IsErrorDict(exif_metadata) \/ DOMAIN exif_metadata.items = {}) )
           => /\ locals.screenshot_score = 50
              /\ locals.screenshot_result =
                     "Possible Screenshot (Missing or Minimal EXIF Data)"
        /\ <<locals.screenshot_result, locals.screenshot_score>> \in
               { <<"Possible Screenshot (Common Screen Resolution)", 35>>,
                 <<"Possible Screenshot (Missing or Minimal EXIF Data)", 50>>,
                 <<"Original Image (Not a Screenshot)", 0>> }

\* C4 witness: an empty EXIF mapping, a size near no reference, classed 50
C4_Witness ==
    /\ Bound("screenshot_score")
    /\ ~IsErrorDict(exif_metadata)
    /\ DOMAIN exif_metadata.items = {}
    /\ ~NearReference(img.size)
    /\ locals.screenshot_score = 50

HasSoftwareKey ==
    basic_metadata.type = "dict" /\ "Software" \in DOMAIN basic_metadata.items

HasSoftware == HasSoftwareKey /\ basic_metadata.items["Software"] # ""

HasSignature ==
    /\ exiftool_metadata.type = "str"
    /\ \/ Contains("Inkscape", exiftool_metadata.s)
       \/ Contains("Photoshop", exiftool_metadata.s)

C6_DecodeFailureEndsRun ==
    (pc # "screenshot" /\ IsErrorDict(img)) =>
        /\ pc = "raised"
        /\ exception = "ValueError"
        /\ locals = EmptyMap
        /\ basic_metadata = NoneVal
        /\ exiftool_metadata = NoneVal
        /\ elaPc[Main] = "idle"
        /\ \A path \in Paths : ~storage[path].exists
        /\ ~ENABLED Next

\* C6 witness: a run ended by the failed decode
C6_Witness == IsErrorDict(img) /\ pc = "raised"

\* C7: a run whose first decode succeeded goes on to end with its total
\* produced, whatever fails among the EXIF extraction, the tool extraction,
\* the edge detector and the ELA transform.
C7_DecodedRunCompletes ==
    (img.type = "Image") ~> (pc = "done" /\ Bound("total_forgery_score"))

\* C7 witness: a completed run in which all four failed
C7_Witness ==
    /\ pc = "done"
    /\ Bound("total_forgery_score")
    /\ IsErrorDict(exif_metadata)
    /\ IsErrorDict(exiftool_metadata)
    /\ IsErrorDict(locals.clone_edges)
    /\ IsErrorDict(locals.ela_result)

\* C8: once every invocation of perform_ela_analysis has returned, no
\* re-encode artifact exists on storage.
C8_ArtifactDeleted ==
    (\A p \in Procs : elaPc[p] = "returned") =>
        \A path \in Paths : ~storage[path].exists

\* C9: the difference map an invocation returns is computed from its own
\* original and its own re-encoded artifact.
C9_DifferenceFromOwnArtifact ==
    \A p \in Procs :
        elaRet[p].type = "Image" => elaRet[p].reencoded = elaRet[p].original

Scores(l) ==
    [k \in DOMAIN l \cap {"screenshot_score", "forgery_score", "total_forgery_score"}
        |-> l[k]]

\* C10: no step of the run from the edge detector on, transform succeeding
\* or failing, changes the screenshot score, the forgery score or the total.
C10_TransformsKeepScores ==
    [][(pc \in {"clone", "ela", "ela_running"}) => (Scores(locals') = Scores(locals))]_vars

\* C10 witness: a completed run whose edge detector failed and whose ELA
\* succeeded, its total 100
C10_Witness ==
    /\ pc = "done"
    /\ IsErrorDict(locals.clone_edges)
    /\ locals.ela_result.type = "Image"
    /\ locals.total_forgery_score = 100

=============================================================================
